---- MODULE Spec2Model ----
(***************************************************************************)
(* Model of the ride-quotation services of go-learn-ca:                    *)
(*   esr_riders  (src/unnamed/part_000): RiderRequest, FindBestDriver,     *)
(*               CalculateCost                                             *)
(*   esr_drivers (src/unnamed/part_001): the driver roster store, Create,  *)
(*               ReadAll, Update, Delete, Authenticate                     *)
(*   esr_auth    (src/esr_auth/esr_auth.go): the key -> user id lookup     *)
(*                                                                         *)
(* Numbers.  Rates and distances are float64 in the code; the model uses   *)
(* integers (distances in metres).  A cost is an exact fraction            *)
(* [num, den] of pounds, so that Distance / 1000.0 * Rate * multiplier is  *)
(* computed without rounding for every integer input.                      *)
(*                                                                         *)
(* Left out, because no input of the model reaches them: the failure of    *)
(* json.Marshal on a journey or on a Response with an infinite cost, and   *)
(* the error of regexp.Match, whose pattern is fixed and valid.            *)
(*                                                                         *)
(* A quote request is modelled in four steps, split at its two outbound    *)
(* calls: RiderRequest (the journey is decoded), CallFindBestDriver,       *)
(* RiderRequestDriver (the name test on the result) and RiderRequestCost   *)
(* (CalculateCost and the answer).  Roster requests are one step each.     *)
(***************************************************************************)
EXTENDS Integers, Sequences, FiniteSets, TLC

\* ------------------------------------------------------------------ bounds
\* the largest driver rate a request may carry
MaxRate == 1
\* the largest number of steps in a leg of a routing response
MaxSteps == 2

\* ------------------------------------------------------- program constants
StatusOK == 200
StatusCreated == 201
StatusBadRequest == 400
StatusInternalServerError == 500
\* criteria 2: fewer drivers than this doubles the rate
ScarcityLimit == 5
\* criteria 3: later than LateHour or earlier than EarlyHour doubles the rate
LateHour == 22
EarlyHour == 6
\* metres per kilometre, the divisor of the cost
MetresPerKm == 1000

\* ------------------------------------------------------------- input sets
\* driver names of directory snapshots
Names == {"a", "b", "c", "d", "e"}
\* driver names carried by roster requests ("" is the empty name)
RosterNames == {"a", "b"}
\* rates a driver may be registered with: the store does not validate them
Rates == {-1} \cup (1 .. MaxRate)
\* hours of the day the clock is read at, around both limits
Hours == {5, 6, 22, 23}

\* the users file of esr_auth
Users == << [Id |-> "u1", Key |-> "k1"], [Id |-> "u2", Key |-> "k2"] >>
\* API keys a roster request may carry; "kx" belongs to no user
Keys == {"k1", "k2", "kx"}
\* the service key of the roster store, and a wrong one
ApiKey == "svc"
ServiceKeys == {"svc", "wrong"}

NoDriversMsg == "No drivers available at this time."
\* the messages of the errors FindBestDriver and CalculateCost return
ErrCreate == "Error: HTTP request creation gailed"
ErrSend == "Error: HTTP request sending gailed"
ErrDecode == "Error: Response body decoding failed"
ErrNoRoute == "Error: No Route Found"

\* ----------------------------------------------------------- esr_riders
\* Driver as esr_riders decodes it: the Id is not part of the struct
ZeroDriver == [Name |-> "", Rate |-> 0]

\* json decoding of the directory's body into map[string]Driver
DecodeDrivers(body) ==
  [n \in DOMAIN body |-> [Name |-> body[n].Name, Rate |-> body[n].Rate]]

\* all iteration orders of a Go map with the key set S
Orders(S) ==
  {o \in [1 .. Cardinality(S) -> S] :
      \A i, j \in 1 .. Cardinality(S) : i # j => o[i] # o[j]}

\* a mutation of RateBelow: the comparison turned round
RateAbove(rate, lowest) == lowest = << >> \/ rate > lowest[1]

\* curDriver.Rate < lowest, where lowest is <<>> for +Inf and <<v>> otherwise
RateBelow(rate, lowest) == lowest = << >> \/ rate < lowest[1]

\* the loop over the decoded map, visiting keys in the order `order` from i
RECURSIVE LowestLoop(_, _, _, _, _)
LowestLoop(order, i, dmap, lowest, driver) ==
  IF i > Len(order) THEN driver
  ELSE LET cur == dmap[order[i]] IN
       IF RateBelow(cur.Rate, lowest)
       THEN LowestLoop(order, i + 1, dmap, << cur.Rate >>, cur)
       ELSE LowestLoop(order, i + 1, dmap, lowest, driver)

\* FindBestDriver: fault is where the directory call breaks ("none": nowhere),
\* resp the directory's HTTP response, order the iteration order of the map
FindBestDriver(fault, resp, order) ==
  IF fault = "create"
  THEN [driver |-> ZeroDriver, num |-> 1,
        err |-> ErrCreate]
  ELSE IF fault = "send"
  THEN [driver |-> ZeroDriver, num |-> 1,
        err |-> ErrSend]
  ELSE IF ~resp.decodable
  THEN [driver |-> ZeroDriver, num |-> 1,
        err |-> ErrDecode]
  ELSE LET dmap == DecodeDrivers(resp.body) IN
       [driver |-> LowestLoop(order, 1, dmap, << >>, ZeroDriver),
        num |-> Cardinality(DOMAIN dmap), err |-> ""]

\* --------------------------------------------------- routing responses
Digits == {"0", "1", "2", "3", "4", "5", "6", "7", "8", "9"}

\* regexp.Match("A(\\d)+", s): an "A" directly followed by a digit, anywhere
RegexpMatch(s) ==
  \E i \in 1 .. Len(s) : s[i] = "A" /\ i + 1 <= Len(s) /\ s[i + 1] \in Digits

\* instruction texts of a step, as sequences of characters
Instructions == { << "A", "4" >>, << "x", "A", "4", "0" >>, << "4", "A" >> }
StepDistances == {0, 1000}
LegDistances == {0, 1500, 2000}

StepSet == [Distance : StepDistances, Html_instructions : Instructions]
StepSeqs == UNION {[1 .. n -> StepSet] : n \in 0 .. MaxSteps}
LegSet == [Distance : LegDistances, Steps : StepSeqs]
\* a leg that is never the first leg of the first route
OtherLeg ==
  [Distance |-> 9000,
   Steps |-> << [Distance |-> 9000, Html_instructions |-> << "A", "4" >>] >>]

NoDirections == [Routes |-> << >>]
\* decoded routing responses: no route, a first route without legs, and a
\* first leg alone, followed by another leg, or followed by another route
DirectionsSet ==
  {NoDirections, [Routes |-> << [Legs |-> << >>] >>],
   [Routes |-> << [Legs |-> << >>], [Legs |-> << OtherLeg >>] >>]}
  \cup {[Routes |-> << [Legs |-> << l >>] >>] : l \in LegSet}
  \cup {[Routes |-> << [Legs |-> << l, OtherLeg >>] >>] : l \in LegSet}
  \cup {[Routes |-> << [Legs |-> << l >>], [Legs |-> << OtherLeg >>] >>] :
          l \in LegSet}
\* a thin set of routing responses, for the specification of the whole system
FewDirections ==
  {NoDirections,
   [Routes |-> << [Legs |-> << [Distance |-> 2000, Steps |-> << >>] >>] >>]}

\* a mutation of FirstLeg: the last leg of the last route
LastLeg(directions) ==
  LET route == directions.Routes[Len(directions.Routes)] IN
  IF Len(route.Legs) = 0 THEN directions.Routes[1].Legs[1]
  ELSE route.Legs[Len(route.Legs)]

\* the leg the cost is computed from: directions.Routes[0].Legs[0]
FirstLeg(directions) == directions.Routes[1].Legs[1]

\* criteria 1, the loop: the summed distance of the steps on A roads
RECURSIVE ARoadTotal(_, _)
ARoadTotal(steps, i) ==
  IF i > Len(steps) THEN 0
  ELSE (IF RegexpMatch(steps[i].Html_instructions) THEN steps[i].Distance ELSE 0)
       + ARoadTotal(steps, i + 1)

\* a mutation of MoreThanHalf: exactly half fires too
HalfOrMore(aRoadTotal, distance) == 2 * aRoadTotal >= distance

\* aRoadTotal > Distance / 2, in integers
MoreThanHalf(aRoadTotal, distance) == 2 * aRoadTotal > distance
\* a mutation of FewDrivers: the limit itself counts as few
FewDriversInclusive(numDrivers) == numDrivers <= ScarcityLimit

\* numDrivers < 5
FewDrivers(numDrivers) == numDrivers < ScarcityLimit
\* hour > 22 || hour < 6
OffPeak(h) == h > LateHour \/ h < EarlyHour

\* the rate multiplier of CalculateCost
Multiplier(leg, numDrivers, h) ==
  LET m1 == IF MoreThanHalf(ARoadTotal(leg.Steps, 1), leg.Distance) THEN 2 ELSE 1
      m2 == IF FewDrivers(numDrivers) THEN m1 * 2 ELSE m1
      m3 == IF OffPeak(h) THEN m2 * 2 ELSE m2
  IN  m3

\* x / d * r * m for an integer x, as a fraction
Fraction(n, d) == [num |-> n, den |-> d]
ZeroCost == Fraction(0, 1)


\* return 0, 0, errors.New(msg)
CostError(msg) ==
  [err |-> msg, cost |-> ZeroCost, finalRate |-> 0, multiplier |-> 0]

\* no route, or no leg in the first route
NoRoute(directions) ==
  Len(directions.Routes) = 0 \/ Len(directions.Routes[1].Legs) = 0

\* a mutation of CalculateCost: the cost leaves the multiplier out
CalculateCostUnscaled(fault, directions, drv, numDrivers, h) ==
  IF fault = "create" THEN CostError(ErrCreate)
  ELSE IF fault = "send" THEN CostError(ErrSend)
  ELSE IF fault = "decode" THEN CostError(ErrDecode)
  ELSE IF NoRoute(directions) THEN CostError(ErrNoRoute)
  ELSE LET leg == FirstLeg(directions)
           m == Multiplier(leg, numDrivers, h)
       IN  [err |-> "",
            cost |-> Fraction(leg.Distance * drv.Rate, MetresPerKm),
            finalRate |-> m * drv.Rate,
            multiplier |-> m]

\* CalculateCost: fault is where the routing call breaks ("none": nowhere),
\* directions the decoded routing response, h the hour of the clock.
CalculateCost(fault, directions, drv, numDrivers, h) ==
  IF fault = "create" THEN CostError(ErrCreate)
  ELSE IF fault = "send" THEN CostError(ErrSend)
  ELSE IF fault = "decode" THEN CostError(ErrDecode)
  ELSE IF NoRoute(directions) THEN CostError(ErrNoRoute)
  ELSE LET leg == FirstLeg(directions)
           m == Multiplier(leg, numDrivers, h)
       IN  [err |-> "",
            cost |-> Fraction(leg.Distance * drv.Rate * m, MetresPerKm),
            finalRate |-> m * drv.Rate,
            multiplier |-> m]

\* ----------------------------------------------------------- esr_auth
\* the loop of esr_auth's Authenticate over the users file, from index i:
\* the Id of the first user with the key, "" when there is none
RECURSIVE UserIdOf(_, _)
UserIdOf(key, i) ==
  IF i > Len(Users) THEN ""
  ELSE IF Users[i].Key = key THEN Users[i].Id
  ELSE UserIdOf(key, i + 1)

\* ---------------------------------------------------------- esr_drivers
\* Authenticate of esr_drivers: fault "send" is a failed call (an error),
\* "refused" an answer of esr_auth with an empty body (the id is "")
Authenticate(key, fault) ==
  IF fault = "send" THEN [id |-> "", err |-> TRUE]
  ELSE IF fault = "refused" THEN [id |-> "", err |-> FALSE]
  ELSE [id |-> UserIdOf(key, 1), err |-> FALSE]
AuthFaults == {"none", "send", "refused"}

\* m[k] = v and delete(m, k) on a Go map
Put(m, k, v) == [n \in DOMAIN m \cup {k} |-> IF n = k THEN v ELSE m[n]]
Remove(m, k) == [n \in DOMAIN m \ {k} |-> m[n]]
EmptyMap == [n \in {} |-> 0]

\* all rosters with names in N, ids in U and rates in Rates, every driver
\* stored under its name
Rosters(N, U) ==
  UNION {{[n \in D |-> [Id |-> f[n][1], Name |-> n, Rate |-> f[n][2]]] :
            f \in [D -> U \X Rates]} : D \in SUBSET N}

\* bodies of Create and Update requests: a Driver, or text that is no Driver
DriverBodies ==
  [decodable : {TRUE}, Name : RosterNames \cup {""}, Rate : Rates]
  \cup {[decodable |-> FALSE, Name |-> "", Rate |-> 0]}

\* ReadAll: the answer to GET /esr_drivers with x-api-key key
ReadAll(roster, key) ==
  IF key # ApiKey
  THEN [header |-> StatusBadRequest, decodable |-> FALSE, body |-> EmptyMap]
  ELSE [header |-> 0, decodable |-> TRUE, body |-> roster]

\* answers of the directory that esr_riders may receive: snapshots of any
\* roster over Names (the Id is dropped by DecodeDrivers, one id is enough)
DirectoryResponses ==
  {ReadAll(r, k) : r \in Rosters(Names, {"u1"}), k \in ServiceKeys}

\* -------------------------------------------------------------- state
VARIABLES
  pc,          \* where the quote request stands: idle, find, found, cost, done
  snapshot,    \* FindBestDriver's decoded map, << >> or << map >>, while it runs
  found,       \* what FindBestDriver returned, << >> or << result >>
  driver,      \* RiderRequest's driver
  numDrivers,  \* RiderRequest's numDrivers
  calls,       \* the services the request has called so far, in order
  directions,  \* the routing response CalculateCost decoded
  clock,       \* the hour CalculateCost read, << >> or << hour >>
  multiplier,  \* the multiplier CalculateCost logged, 0 when it logged none
  errlog,      \* the error the request logged, "" when none
  response,    \* what the request wrote to its ResponseWriter
  drivers,     \* the roster of esr_drivers
  caller,      \* the user id the last roster request authenticated as
  rstatus,     \* the status the last roster request answered with
  creator,     \* for every roster entry, the user id whose Create added it
  handlers,    \* for every goroutine serving Create: where it stands, its
               \* userId, the body of its request and the status it wrote
  crashed      \* the roster store has died of a fatal error of the runtime

riderVars ==
  << pc, snapshot, found, driver, numDrivers, calls, directions, clock,
     multiplier, errlog, response >>
rosterVars == << drivers, caller, rstatus, creator >>
handlerVars == << handlers, crashed >>
vars == << riderVars, rosterVars, handlerVars >>

\* the goroutines net/http serves Create requests on, two at a time
Goroutines == {"g1", "g2"}
NoBody == [decodable |-> FALSE, Name |-> "", Rate |-> 0]
IdleHandler == [pc |-> "idle", userId |-> "", body |-> NoBody, status |-> 0]

\* a ResponseWriter: header is the status given to WriteHeader (0: none given,
\* the client sees 200), msg the text written, quote the Response written
NoResponse == [header |-> 0, msg |-> "", quote |-> << >>]
ErrorResponse(status) == [header |-> status, msg |-> "", quote |-> << >>]
\* the status the caller sees
StatusCode(resp) == IF resp.header = 0 THEN StatusOK ELSE resp.header

Init ==
  /\ pc = "idle"
  /\ snapshot = << >>
  /\ found = << >>
  /\ driver = ZeroDriver
  /\ numDrivers = 0
  /\ calls = << >>
  /\ directions = NoDirections
  /\ clock = << >>
  /\ multiplier = 0
  /\ errlog = ""
  /\ response = NoResponse
  /\ drivers = EmptyMap
  /\ caller = ""
  /\ rstatus = 0
  /\ creator = EmptyMap
  /\ handlers = [g \in Goroutines |-> IdleHandler]
  /\ crashed = FALSE

\* ------------------------------------------------- esr_riders: actions
DirectoryFaults == {"none", "create", "send"}
RoutingFaults == {"none", "create", "send", "decode"}

\* RiderRequest, lines 104-112 and 128-132: a request arrives, the handler's
\* variables are fresh, and the journey is decoded from the body
RiderRequest(journeyOk) ==
  /\ pc \in {"idle", "done"}
  /\ snapshot' = << >>
  /\ found' = << >>
  /\ driver' = ZeroDriver
  /\ numDrivers' = 0
  /\ calls' = << >>
  /\ directions' = NoDirections
  /\ clock' = << >>
  /\ multiplier' = 0
  /\ IF journeyOk
     THEN /\ pc' = "find"
          /\ errlog' = ""
          /\ response' = NoResponse
     ELSE /\ pc' = "done"
          /\ errlog' = "journey"
          /\ response' = ErrorResponse(StatusBadRequest)
  /\ UNCHANGED rosterVars
  /\ UNCHANGED handlerVars

\* the call of FindBestDriver, lines 160-187: the request to the directory,
\* its answer resp (one of responses), and the loop over the decoded map
\* the iteration orders of the map decoded from resp
OrdersOf(resp) ==
  IF resp.decodable THEN Orders(DOMAIN resp.body) ELSE {<< >>}

CallFindBestDriver(responses) ==
  /\ pc = "find"
  /\ \E fault \in DirectoryFaults, resp \in responses :
       \E order \in OrdersOf(resp) :
         /\ found' = << FindBestDriver(fault, resp, order) >>
         /\ snapshot' = IF fault = "none" /\ resp.decodable
                        THEN << DecodeDrivers(resp.body) >> ELSE << >>
         /\ calls' = IF fault = "create" THEN calls
                     ELSE Append(calls, "directory")
  /\ pc' = "found"
  /\ UNCHANGED << driver, numDrivers, directions, clock, multiplier, errlog,
                  response >>
  /\ UNCHANGED rosterVars
  /\ UNCHANGED handlerVars

\* a mutation of NoDriverResponse: the empty roster answered as a failure
NoDriverAsFailure == ErrorResponse(StatusInternalServerError)

\* w.Write([]byte("No drivers available at this time.")), with no header
NoDriverResponse == [NoResponse EXCEPT !.msg = NoDriversMsg]

\* a mutation of DirectoryOk: the error of FindBestDriver is not looked at
DirectoryUnchecked(r) == TRUE

\* err1 == nil, on what FindBestDriver returned
DirectoryOk(r) == r.err = ""

\* RiderRequest, lines 113-127: FindBestDriver has returned
RiderRequestDriver ==
  /\ pc = "found"
  /\ LET r == found[1] IN
     IF DirectoryOk(r)
     THEN IF r.driver.Name # ""
          THEN /\ driver' = r.driver
               /\ numDrivers' = r.num
               /\ pc' = "cost"
               /\ UNCHANGED << errlog, response >>
          ELSE /\ response' = NoDriverResponse
               /\ errlog' = "Tried finding best driver, but none available."
               /\ pc' = "done"
               /\ UNCHANGED << driver, numDrivers >>
     ELSE /\ response' = ErrorResponse(StatusInternalServerError)
          /\ errlog' = r.err
          /\ pc' = "done"
          /\ UNCHANGED << driver, numDrivers >>
  /\ snapshot' = << >>
  /\ found' = << >>
  /\ UNCHANGED << calls, directions, clock, multiplier >>
  /\ UNCHANGED rosterVars
  /\ UNCHANGED handlerVars

\* json.Marshal(response) and the two writes, lines 143-150
QuoteResponse(c) ==
  [header |-> StatusOK, msg |-> "",
   quote |-> << [FinalRate |-> c.finalRate, Cost |-> c.cost] >>]

\* RiderRequest, lines 134-155, with the call of CalculateCost: the request to
\* the routing service, its decoded answer d (one of answers), and the hour
\* h of the clock (one of hours)
RiderRequestCost(answers, hours) ==
  /\ pc = "cost"
  /\ \E fault \in RoutingFaults, d \in answers, h \in hours :
       LET c == CalculateCost(fault, d, driver, numDrivers, h) IN
       /\ directions' = IF fault = "none" THEN d ELSE NoDirections
       /\ clock' = IF c.err = "" THEN << h >> ELSE << >>
       /\ multiplier' = c.multiplier
       /\ errlog' = c.err
       /\ response' = IF c.err = "" THEN QuoteResponse(c)
                      ELSE ErrorResponse(StatusInternalServerError)
       /\ calls' = IF fault = "create" THEN calls
                   ELSE Append(calls, "routing")
  /\ pc' = "done"
  /\ UNCHANGED << snapshot, found, driver, numDrivers >>
  /\ UNCHANGED rosterVars
  /\ UNCHANGED handlerVars

\* ------------------------------------------------ esr_drivers: actions
\* a mutation of ValidName: the empty name is let through
AnyName(name) == TRUE

\* driver.Name != ""
ValidName(name) == name # ""

\* Create, lines 80-113
Create(key, fault, body) ==
  LET a == Authenticate(key, fault) IN
  /\ caller' = a.id
  /\ IF a.err
     THEN /\ rstatus' = StatusInternalServerError
          /\ UNCHANGED << drivers, creator >>
     ELSE IF a.id = ""
     THEN /\ rstatus' = StatusBadRequest
          /\ UNCHANGED << drivers, creator >>
     ELSE IF body.decodable /\ ValidName(body.Name)
             /\ body.Name \notin DOMAIN drivers
     THEN /\ rstatus' = StatusCreated
          /\ drivers' = Put(drivers, body.Name,
                            [Id |-> a.id, Name |-> body.Name, Rate |-> body.Rate])
          /\ creator' = Put(creator, body.Name, a.id)
     ELSE /\ rstatus' = StatusBadRequest
          /\ UNCHANGED << drivers, creator >>
  /\ UNCHANGED riderVars
  /\ UNCHANGED handlerVars

\* a mutation of Owns: the owner of the entry is not compared
OwnsAny(roster, index, userId) == index \in DOMAIN roster

\* drv, ok := drivers[index]; ok && drv.Id == userId
Owns(roster, index, userId) ==
  index \in DOMAIN roster /\ roster[index].Id = userId

\* Update, lines 161-189
Update(key, fault, body) ==
  LET a == Authenticate(key, fault) IN
  /\ caller' = a.id
  /\ IF ~a.err /\ a.id # "" /\ body.decodable /\ Owns(drivers, body.Name, a.id)
     THEN /\ rstatus' = StatusOK
          /\ drivers' = Put(drivers, body.Name,
                            [Id |-> a.id, Name |-> body.Name, Rate |-> body.Rate])
     ELSE /\ rstatus' = StatusBadRequest
          /\ UNCHANGED drivers
  /\ UNCHANGED creator
  /\ UNCHANGED riderVars
  /\ UNCHANGED handlerVars

\* Delete, lines 195-217, for the driver name user of the URL
Delete(key, fault, user) ==
  LET a == Authenticate(key, fault) IN
  /\ caller' = a.id
  /\ IF ~a.err /\ a.id # "" /\ Owns(drivers, user, a.id)
     THEN /\ rstatus' = StatusOK
          /\ drivers' = Remove(drivers, user)
          /\ creator' = Remove(creator, user)
     ELSE /\ rstatus' = StatusBadRequest
          /\ UNCHANGED << drivers, creator >>
  /\ UNCHANGED riderVars
  /\ UNCHANGED handlerVars

\* ------------------------------------------------------ specifications
\* the quote service alone, served by a directory that holds any roster
Next ==
  \/ \E journeyOk \in BOOLEAN : RiderRequest(journeyOk)
  \/ CallFindBestDriver(DirectoryResponses)
  \/ RiderRequestDriver
  \/ RiderRequestCost(DirectionsSet, Hours)

Spec == Init /\ [][Next]_vars

\* the whole system: the roster store with its clients, and the quote service
\* reading the directory from it
NextSystem ==
  \/ \E key \in Keys, fault \in AuthFaults, body \in DriverBodies :
       Create(key, fault, body)
  \/ \E key \in Keys, fault \in AuthFaults, body \in DriverBodies :
       Update(key, fault, body)
  \/ \E key \in Keys, fault \in AuthFaults, user \in RosterNames :
       Delete(key, fault, user)
  \/ \E journeyOk \in BOOLEAN : RiderRequest(journeyOk)
  \/ CallFindBestDriver({ReadAll(drivers, key) : key \in ServiceKeys})
  \/ RiderRequestDriver
  \/ RiderRequestCost(FewDirections, {14})

SpecSystem == Init /\ [][NextSystem]_vars

\* ------------------------------- esr_drivers: Create on its goroutines
\* net/http runs every handler on a goroutine of its own, and Create takes no
\* lock on drivers: a goroutine may be suspended in the call of Authenticate,
\* and between the test of line 100 and the assignment of line 102.

\* the handler of goroutine g becomes h
SetHandler(g, h) == handlers' = [handlers EXCEPT ![g] = h]

\* Create, lines 80-93: a request arrives on goroutine g and is authenticated
CreateAuthenticate(g) ==
  /\ ~crashed
  /\ handlers[g].pc \in {"idle", "done"}
  /\ \E key \in Keys, fault \in AuthFaults, body \in DriverBodies :
       LET a == Authenticate(key, fault) IN
       IF a.err
       THEN SetHandler(g, [pc |-> "done", userId |-> "", body |-> NoBody,
                           status |-> StatusInternalServerError])
       ELSE IF a.id = ""
       THEN SetHandler(g, [pc |-> "done", userId |-> "", body |-> NoBody,
                           status |-> StatusBadRequest])
       ELSE SetHandler(g, [pc |-> "check", userId |-> a.id, body |-> body,
                           status |-> 0])
  /\ UNCHANGED << riderVars, rosterVars, crashed >>

\* Create, lines 94-101 and 104-112: the body is decoded, the name tested and
\* looked up in drivers, and the status written
CreateCheck(g) ==
  /\ ~crashed
  /\ handlers[g].pc = "check"
  /\ LET h == handlers[g] IN
     IF h.body.decodable /\ ValidName(h.body.Name)
        /\ h.body.Name \notin DOMAIN drivers
     THEN SetHandler(g, [h EXCEPT !.pc = "insert", !.status = StatusCreated])
     ELSE SetHandler(g, [pc |-> "done", userId |-> h.userId, body |-> NoBody,
                         status |-> StatusBadRequest])
  /\ UNCHANGED << riderVars, rosterVars, crashed >>

\* Create, lines 102-103: drivers[index] = driver
CreateInsert(g) ==
  /\ ~crashed
  /\ handlers[g].pc = "insert"
  /\ LET h == handlers[g] IN
     /\ drivers' = Put(drivers, h.body.Name,
                       [Id |-> h.userId, Name |-> h.body.Name,
                        Rate |-> h.body.Rate])
     /\ creator' = IF h.body.Name \in DOMAIN creator THEN creator
                   ELSE Put(creator, h.body.Name, h.userId)
     /\ SetHandler(g, [h EXCEPT !.pc = "done"])
  /\ UNCHANGED << riderVars, caller, rstatus, crashed >>

\* the data race on drivers: while one goroutine writes the map and another
\* reads or writes it, the runtime may stop the process with a fatal error
\* (concurrent map writes, concurrent map read and map write)
MapRace ==
  /\ ~crashed
  /\ \E g, h \in Goroutines :
       /\ g # h
       /\ handlers[g].pc = "insert"
       /\ handlers[h].pc \in {"check", "insert"}
  /\ crashed' = TRUE
  /\ UNCHANGED << riderVars, rosterVars, handlers >>

\* the roster store serving Create requests concurrently
NextConcurrent ==
  \/ \E g \in Goroutines : CreateAuthenticate(g)
  \/ \E g \in Goroutines : CreateCheck(g)
  \/ \E g \in Goroutines : CreateInsert(g)
  \/ MapRace

SpecConcurrent == Init /\ [][NextConcurrent]_vars

\* ================================================================ claims
\* the outcomes of a quote request, as its caller tells them apart
IsQuote(resp) == StatusCode(resp) = 200 /\ resp.quote # << >> /\ resp.msg = ""
IsNoDriver(resp) ==
  StatusCode(resp) = 200 /\ resp.quote = << >> /\ resp.msg = NoDriversMsg
IsError(resp) == StatusCode(resp) >= 400 /\ resp.quote = << >> /\ resp.msg = ""

\* the request has ended with a quote
Quoted == pc = "done" /\ response.quote # << >>

\* the distance of the steps of a leg that run on a major road
MajorRoadDistance(leg) == ARoadTotal(leg.Steps, 1)
Count(b) == IF b THEN 1 ELSE 0
\* how many of the three surge conditions hold
SurgeCount(leg, count, h) ==
  Count(2 * MajorRoadDistance(leg) > leg.Distance)
  + Count(count < 5)
  + Count(h > 22 \/ h < 6)

\* C1: whenever FindBestDriver returns for a decoded snapshot, it returns the
\* snapshot's size and, for a snapshot with drivers, one of its drivers whose
\* rate no driver of the snapshot undercuts; and a request whose snapshot is
\* empty ends with the 'no driver available' message.
C1_FindBestDriverMinimum ==
  [][ /\ (pc' = "found" /\ snapshot' # << >>) =>
           LET m == snapshot'[1]
               r == found'[1]
           IN  /\ r.err = ""
               /\ r.num = Cardinality(DOMAIN m)
               /\ DOMAIN m # {} =>
                    /\ \E n \in DOMAIN m : r.driver = m[n]
                    /\ \A n \in DOMAIN m : r.driver.Rate <= m[n].Rate
      /\ (pc = "found" /\ pc' # "found" /\ snapshot # << >>
            /\ DOMAIN snapshot[1] = {}) =>
           (pc' = "done" /\ IsNoDriver(response'))
    ]_vars

\* FindBestDriver has returned for a snapshot of three or more drivers whose
\* rates differ, and the cheapest is not the only one
C1_Witness ==
  /\ pc = "found"
  /\ snapshot # << >>
  /\ Cardinality(DOMAIN snapshot[1]) >= 3
  /\ \E a, b \in DOMAIN snapshot[1] :
       snapshot[1][a].Rate < snapshot[1][b].Rate
  /\ found[1].driver.Rate < 0

\* C2: the multiplier of every quote is 2^k, k the number of the conditions
\* that hold: major-road distance strictly above half the leg distance, driver
\* count below 5, hour after 22 or before 6.
C2_MultiplierPowerOfTwo ==
  Quoted =>
    LET leg == directions.Routes[1].Legs[1] IN
    /\ multiplier = 2 ^ SurgeCount(leg, numDrivers, clock[1])
    /\ multiplier \in {1, 2, 4, 8}

\* a quote on all three boundaries: five drivers, hour 22, exactly half of a
\* positive distance on major roads, and no rule has fired
C2_Witness ==
  /\ Quoted
  /\ numDrivers = 5
  /\ clock = << 22 >>
  /\ LET leg == directions.Routes[1].Legs[1] IN
       leg.Distance > 0 /\ 2 * MajorRoadDistance(leg) = leg.Distance
  /\ multiplier = 1

\* C3: the driver and the driver count of a request are what FindBestDriver
\* returned, the count being the size of the snapshot; and in every quote the
\* effective rate is multiplier * driver.Rate and the cost is
\* Distance / 1000 * multiplier * driver.Rate, for the multiplier of C2.
C3_QuoteArithmetic ==
  [][ /\ (pc = "found" /\ pc' = "cost") =>
           /\ driver' = found[1].driver
           /\ driver'.Name \in DOMAIN snapshot[1]
           /\ driver' = snapshot[1][driver'.Name]
           /\ numDrivers' = Cardinality(DOMAIN snapshot[1])
      /\ Quoted' =>
           LET leg == directions'.Routes[1].Legs[1]
               m == 2 ^ SurgeCount(leg, numDrivers', clock'[1])
               q == response'.quote[1]
           IN  /\ driver' = driver
               /\ numDrivers' = numDrivers
               /\ q.FinalRate = m * driver.Rate
               /\ q.Cost.den > 0
               /\ q.Cost.num * 1000 = leg.Distance * m * driver.Rate * q.Cost.den
    ]_vars

\* a quote for a positive rate over 1500 metres with the multiplier 4
C3_Witness ==
  /\ Quoted
  /\ driver.Rate > 0
  /\ directions.Routes[1].Legs[1].Distance = 1500
  /\ multiplier = 4
  /\ response.quote[1].FinalRate = 4 * driver.Rate

\* C4: a request that has ended shows exactly one of the three outcomes, and
\* a directory call that succeeds with an empty roster ends in the 'no driver
\* available' outcome with no status written.
C4_ThreeOutcomes ==
  [][ /\ pc' = "done" =>
           /\ IsQuote(response') \/ IsNoDriver(response') \/ IsError(response')
           /\ ~(IsQuote(response') /\ IsNoDriver(response'))
           /\ ~(IsQuote(response') /\ IsError(response'))
           /\ ~(IsNoDriver(response') /\ IsError(response'))
      /\ (pc = "found" /\ pc' # "found" /\ found[1].err = ""
            /\ found[1].num = 0) =>
           /\ pc' = "done"
           /\ IsNoDriver(response')
           /\ response'.header = 0
    ]_vars

\* a request has ended with the 'no driver available' outcome after the
\* directory was called
C4_Witness ==
  pc = "done" /\ IsNoDriver(response) /\ calls = << "directory" >>

\* C5: when FindBestDriver returns an error the request ends at once in an
\* error outcome; and the routing service is called at most once, only after
\* the directory was called and a driver was taken from its answer.
C5_NoRoutingAfterDirectoryFailure ==
  [][ /\ (pc = "found" /\ pc' # "found" /\ found[1].err # "") =>
           /\ pc' = "done"
           /\ IsError(response')
           /\ calls' = calls
      /\ (\E i \in 1 .. Len(calls') : calls'[i] = "routing") =>
           /\ calls' = << "directory", "routing" >>
           /\ driver'.Name # ""
           /\ pc' = "done"
      /\ (pc' = "done" /\ driver'.Name = "") =>
           \A i \in 1 .. Len(calls') : calls'[i] # "routing"
    ]_vars

\* a request has ended in an error after a directory call that failed
C5_Witness ==
  /\ pc = "done"
  /\ IsError(response)
  /\ errlog \in {ErrSend, ErrDecode}
  /\ calls = << "directory" >>

\* C6, as claimed: a quote is produced only if a driver was found, the first
\* leg has at least one step, and multiplier, effective rate and cost are not
\* negative.
C6_QuoteOnlyFromValidInputs ==
  Quoted =>
    /\ driver.Name # ""
    /\ Len(directions.Routes) >= 1
    /\ Len(directions.Routes[1].Legs) >= 1
    /\ Len(directions.Routes[1].Legs[1].Steps) >= 1
    /\ multiplier >= 0
    /\ response.quote[1].FinalRate >= 0
    /\ response.quote[1].Cost.num >= 0

\* C7, as claimed: when the leg's distance is 0 the road rule does not fire
\* and the cost is 0.
C7_ZeroDistanceNeverFires ==
  (Quoted /\ directions.Routes[1].Legs[1].Distance = 0) =>
    /\ multiplier = 2 ^ (Count(numDrivers < 5)
                         + Count(clock[1] > 22 \/ clock[1] < 6))
    /\ response.quote[1].Cost.num = 0

\* C7, amended: when the leg's distance is 0 the cost is 0, and the road rule
\* fires exactly when the steps on major roads have a positive distance.
C7_ZeroDistanceAmended ==
  (Quoted /\ directions.Routes[1].Legs[1].Distance = 0) =>
    /\ multiplier = 2 ^ (Count(MajorRoadDistance(directions.Routes[1].Legs[1]) > 0)
                         + Count(numDrivers < 5)
                         + Count(clock[1] > 22 \/ clock[1] < 6))
    /\ response.quote[1].Cost.num = 0

\* a quote over a leg of distance 0 with a major-road step of 1000 metres and
\* one of 0 metres: the road rule alone has fired, and the cost is 0
C7_Witness ==
  /\ Quoted
  /\ LET leg == directions.Routes[1].Legs[1] IN
       /\ leg.Distance = 0
       /\ Len(leg.Steps) = 2
       /\ RegexpMatch(leg.Steps[1].Html_instructions)
       /\ leg.Steps[1].Distance = 0
       /\ RegexpMatch(leg.Steps[2].Html_instructions)
       /\ leg.Steps[2].Distance = 1000
  /\ numDrivers = 5
  /\ clock = << 6 >>
  /\ multiplier = 2
  /\ response.quote[1].Cost.num = 0

\* the quote the first leg of the first route asks for
QuoteOfLeg(leg, drv, count, h) ==
  LET m == 2 ^ SurgeCount(leg, count, h) IN
  [FinalRate |-> m * drv.Rate,
   Cost |-> [num |-> leg.Distance * drv.Rate * m, den |-> 1000]]

\* the routing service has answered the request
RoutingAnswered ==
  /\ pc = "done"
  /\ calls = << "directory", "routing" >>
  /\ errlog \notin {ErrSend, ErrDecode}

\* C8: when the routing answer has no route, or its first route no leg, the
\* request fails with 'No Route Found' and without a quote; otherwise the
\* quote is the one of the first leg of the first route alone.
C8_FirstRouteFirstLeg ==
  RoutingAnswered =>
    IF Len(directions.Routes) = 0 \/ Len(directions.Routes[1].Legs) = 0
    THEN errlog = ErrNoRoute /\ IsError(response)
    ELSE /\ IsQuote(response)
         /\ response.quote =
              << QuoteOfLeg(directions.Routes[1].Legs[1], driver, numDrivers,
                            clock[1]) >>

\* a quote from an answer with a second route, whose leg would cost more
C8_Witness ==
  /\ RoutingAnswered
  /\ Len(directions.Routes) = 2
  /\ Len(directions.Routes[1].Legs) = 1
  /\ directions.Routes[1].Legs[1].Distance = 2000
  /\ IsQuote(response)
  /\ response.quote[1].Cost.num = 2000 * multiplier * driver.Rate

\* the user ids of the users file
UserIds == {Users[i].Id : i \in 1 .. Len(Users)}

C10_NoEmptyName ==
  [][ /\ \A n \in DOMAIN drivers' : n # "" /\ drivers'[n].Name = n
      /\ (pc = "find" /\ pc' = "found" /\ snapshot' # << >>) =>
           snapshot'[1] = DecodeDrivers(drivers)
      /\ (pc = "found" /\ pc' # "found" /\ IsNoDriver(response')) =>
           (snapshot # << >> /\ DOMAIN snapshot[1] = {})
      /\ (pc = "found" /\ pc' # "found" /\ snapshot # << >>
            /\ DOMAIN snapshot[1] # {}) =>
           (pc' = "cost" /\ driver'.Name \in DOMAIN snapshot[1])
    ]_vars

\* the quote service holds a driver taken from a roster of two, after a Create
\* with an empty name was refused
C10_Witness ==
  /\ pc = "cost"
  /\ numDrivers = 2
  /\ driver.Name \in DOMAIN drivers
  /\ DOMAIN drivers = {"a", "b"}

\* C11, as claimed: the existence check and the insert of Create take effect
\* as one step, so a goroutine that has passed the check inserts into a roster
\* that still lacks the name, and no two Create requests for one name, from
\* different users, have both answered 201.
C11_CreateAtomic ==
  /\ \A g \in Goroutines :
       handlers[g].pc = "insert" => handlers[g].body.Name \notin DOMAIN drivers
  /\ \A g, h \in Goroutines :
       ~ /\ g # h
         /\ handlers[g].status = StatusCreated
         /\ handlers[h].status = StatusCreated
         /\ handlers[g].body.Name = handlers[h].body.Name
         /\ handlers[g].userId # handlers[h].userId

====
